---- MODULE Spec2Model ----
(***************************************************************************)
(* Model of the iBoot binary view (src/src/view.rs): the format probe      *)
(* iBootViewType::is_valid_for and the layout resolution iBootView::init   *)
(* with its helpers get_iboot_version and find_base_addr.                  *)
(*                                                                         *)
(* Bytes are naturals 0..255.  An image is a sequence of bytes; the byte   *)
(* at file offset o is image[o + 1].  A u64 is a sequence of 8 base-256    *)
(* digits, most significant digit first, so that 64-bit arithmetic is done *)
(* digit by digit with an explicit carry out of the top digit.             *)
(***************************************************************************)
EXTENDS Integers, Sequences, FiniteSets, TLC

\* ------------------------------------------------------------------ u64 --

U64Digits == 1..8

ZeroU64 == [i \in U64Digits |-> 0]

\* A length or offset (below 2^31) widened to u64, as `usize as u64` does.
FromNat(n) ==
    [i \in U64Digits |-> IF i <= 4 THEN 0 ELSE (n \div (256 ^ (8 - i))) % 256]

RECURSIVE AddDigits(_, _, _, _)
AddDigits(a, b, i, carry) ==
    IF i = 0
    THEN [digits |-> <<>>, carry |-> carry]
    ELSE LET s    == a[i] + b[i] + carry
             rest == AddDigits(a, b, i - 1, s \div 256)
         IN  [digits |-> Append(rest.digits, s % 256), carry |-> rest.carry]

\* a + b in u64: the sum modulo 2^64 and whether it overflowed.
AddU64(a, b) ==
    LET r == AddDigits(a, b, 8, 0)
    IN  [value |-> r.digits, overflow |-> r.carry # 0]

RECURSIVE SubDigits(_, _, _, _)
SubDigits(a, b, i, borrow) ==
    IF i = 0
    THEN <<>>
    ELSE LET d == a[i] - b[i] - borrow
         IN  Append(SubDigits(a, b, i - 1, IF d < 0 THEN 1 ELSE 0), d % 256)

\* a - b modulo 2^64.
SubU64(a, b) == SubDigits(a, b, 8, 0)

RECURSIVE LessFrom(_, _, _)
LessFrom(a, b, i) ==
    IF i > 8 THEN FALSE
    ELSE IF a[i] # b[i] THEN a[i] < b[i]
    ELSE LessFrom(a, b, i + 1)

LessU64(a, b) == LessFrom(a, b, 1)

RECURSIVE MulAddDigits(_, _, _)
MulAddDigits(a, i, carry) ==
    IF i = 0
    THEN [digits |-> <<>>, carry |-> carry]
    ELSE LET s    == a[i] * 10 + carry
             rest == MulAddDigits(a, i - 1, s \div 256)
         IN  [digits |-> Append(rest.digits, s % 256), carry |-> rest.carry]

\* acc * 10 + d with overflow detection: one step of the decimal parse.
MulAdd10(acc, d) ==
    LET r == MulAddDigits(acc, 8, d)
    IN  [value |-> r.digits, overflow |-> r.carry # 0]

\* ---------------------------------------------------------------- bytes --

Reverse(s) == [i \in 1..Len(s) |-> s[Len(s) + 1 - i]]

\* BinaryView::read: the bytes at [offset, offset + len) that exist; a read
\* that runs past the end of the file is short, one past the end is empty.
ReadBytes(data, offset, len) ==
    IF offset >= Len(data)
    THEN <<>>
    ELSE SubSeq(data, offset + 1,
                IF offset + len <= Len(data) THEN offset + len ELSE Len(data))

\* -------------------------------------------------------- FormatDetector --

TagOffset == 512

Tag_SecureROM == <<83, 101, 99, 117, 114, 101, 82, 79, 77>>
Tag_AVPBooter == <<65, 86, 80, 66, 111, 111, 116, 101, 114>>
Tag_iBoot     == <<105, 66, 111, 111, 116>>
Tag_iBEC      == <<105, 66, 69, 67>>
Tag_iBSS      == <<105, 66, 83, 83>>

\* let names = vec!["SecureROM", "AVPBooter", "iBoot", "iBEC", "iBSS"];
names == <<Tag_SecureROM, Tag_AVPBooter, Tag_iBoot, Tag_iBEC, Tag_iBSS>>

\* data.read_vec(offset, len): a vector of the bytes actually read.
read_vec(data, offset, len) == ReadBytes(data, offset, len)

\* A probe that accepts a short read when it is a prefix of the tag.
is_valid_for_prefix(data) ==
    \E k \in 1..Len(names) :
        LET got == read_vec(data, TagOffset, Len(names[k]))
        IN  /\ Len(got) > 0
            /\ got = SubSeq(names[k], 1, Len(got))

\* A probe that compares only the first four bytes of each tag.
is_valid_for_four(data) ==
    \E k \in 1..Len(names) :
        read_vec(data, TagOffset, 4) = SubSeq(names[k], 1, 4)

\* for i in names { if data.read_vec(0x200, i.len()) == i.as_bytes() { return true } } false
is_valid_for(data) ==
    \E k \in 1..Len(names) :
        read_vec(data, TagOffset, Len(names[k])) = names[k]

\* -------------------------------------------------------- LayoutResolver --

VersionOffset == 646
VersionLen    == 122
LegacyOffset  == 792
ModernOffset  == 768
Threshold     == 6603
FieldSize     == 8

Dot   == 46
Plus  == 43
Minus == 45
Char0 == 48
Char9 == 57

\* std::str::from_utf8: is s[i..] a sequence of well-formed UTF-8 encodings?
Cont(s, i, lo, hi) == i <= Len(s) /\ s[i] >= lo /\ s[i] <= hi

\* The validator skips a run of ASCII bytes and then checks the encoding
\* that starts at the first byte >= 0x80, by its width.
RECURSIVE ValidUtf8From(_, _)
ValidUtf8From(s, i) ==
    LET high == {j \in i..Len(s) : s[j] >= 128} IN
    IF high = {} THEN TRUE
    ELSE LET k == CHOOSE j \in high : \A m \in high : j <= m
             b == s[k]
         IN
         IF b >= 194 /\ b <= 223
         THEN Cont(s, k + 1, 128, 191) /\ ValidUtf8From(s, k + 2)
         ELSE IF b >= 224 /\ b <= 239
              THEN /\ CASE b = 224 -> Cont(s, k + 1, 160, 191)
                        [] b = 237 -> Cont(s, k + 1, 128, 159)
                        [] OTHER   -> Cont(s, k + 1, 128, 191)
                   /\ Cont(s, k + 2, 128, 191)
                   /\ ValidUtf8From(s, k + 3)
         ELSE IF b >= 240 /\ b <= 244
              THEN /\ CASE b = 240 -> Cont(s, k + 1, 144, 191)
                        [] b = 244 -> Cont(s, k + 1, 128, 143)
                        [] OTHER   -> Cont(s, k + 1, 128, 191)
                   /\ Cont(s, k + 2, 128, 191)
                   /\ Cont(s, k + 3, 128, 191)
                   /\ ValidUtf8From(s, k + 4)
         ELSE FALSE

from_utf8_ok(s) == ValidUtf8From(s, 1)

\* get_iboot_version: read_into_vec(&mut value, 0x286, 0x7a), then from_utf8.
get_iboot_version(data) ==
    LET value == ReadBytes(data, VersionOffset, VersionLen)
    IN  [ok |-> from_utf8_ok(value), text |-> value]

\* iboot_vers.split('.') ... v[0]: the text before the first '.', or all of it.
FirstDot(s) ==
    LET dots == {i \in 1..Len(s) : s[i] = Dot} IN
    IF dots = {} THEN Len(s) + 1
    ELSE CHOOSE i \in dots : \A j \in dots : i <= j

split_first(s) == SubSeq(s, 1, FirstDot(s) - 1)

\* str::parse::<u64>: an optional '+', then one or more ASCII digits, the
\* value accumulated with checked multiply and add.
RECURSIVE ParseDigits(_, _, _)
ParseDigits(s, i, acc) ==
    IF i > Len(s) THEN [ok |-> TRUE, value |-> acc]
    ELSE IF s[i] < Char0 \/ s[i] > Char9 THEN [ok |-> FALSE, value |-> ZeroU64]
    ELSE LET r == MulAdd10(acc, s[i] - Char0)
         IN  IF r.overflow THEN [ok |-> FALSE, value |-> ZeroU64]
             ELSE ParseDigits(s, i + 1, r.value)

parse_u64(src) ==
    IF Len(src) = 0 THEN [ok |-> FALSE, value |-> ZeroU64]
    ELSE IF Len(src) = 1 /\ src[1] \in {Plus, Minus}
         THEN [ok |-> FALSE, value |-> ZeroU64]
    ELSE IF src[1] = Plus THEN ParseDigits(src, 2, ZeroU64)
    ELSE ParseDigits(src, 1, ZeroU64)

\* read_u64::<LittleEndian>: the first byte read is the least significant.
read_u64_le(bytes) == Reverse(bytes)

\* A resolver whose version threshold is exclusive.
find_base_addr_exclusive(data, buf) ==
    LET vers == get_iboot_version(data) IN
    IF ~vers.ok THEN [panic |-> FALSE, value |-> ZeroU64]
    ELSE LET major == parse_u64(split_first(vers.text)) IN
         IF ~major.ok THEN [panic |-> TRUE, value |-> ZeroU64]
         ELSE LET base_addr_offset ==
                      IF LessU64(FromNat(Threshold), major.value)
                      THEN ModernOffset ELSE LegacyOffset
              IN  IF base_addr_offset + FieldSize > Len(buf)
                  THEN [panic |-> TRUE, value |-> ZeroU64]
                  ELSE [panic |-> FALSE,
                        value |-> read_u64_le(SubSeq(buf, base_addr_offset + 1,
                                                     base_addr_offset + FieldSize))]

\* find_base_addr: 0 when the version is not UTF-8; a panic when the leading
\* component does not parse (unwrap) or when the slice
\* buf[offset..offset + 8] is out of range; otherwise the field's value.
find_base_addr(data, buf) ==
    LET vers == get_iboot_version(data) IN
    IF ~vers.ok THEN [panic |-> FALSE, value |-> ZeroU64]
    ELSE LET major == parse_u64(split_first(vers.text)) IN
         IF ~major.ok THEN [panic |-> TRUE, value |-> ZeroU64]
         ELSE LET base_addr_offset ==
                      IF ~LessU64(major.value, FromNat(Threshold))
                      THEN ModernOffset ELSE LegacyOffset
              IN  IF base_addr_offset + FieldSize > Len(buf)
                  THEN [panic |-> TRUE, value |-> ZeroU64]
                  ELSE [panic |-> FALSE,
                        value |-> read_u64_le(SubSeq(buf, base_addr_offset + 1,
                                                     base_addr_offset + FieldSize))]

\* ------------------------------------------------------------- the view --

\* The facts the host's BinaryView holds for one view instance.
EmptyView ==
    [arch |-> "none", platform |-> "none", segments |-> <<>>,
     sections |-> <<>>, entry_points |-> <<>>, symbols |-> <<>>]

\* SegmentFlags::new().readable(true).writable(false).executable(true)
\*     .contains_data(true).contains_code(true)
segment_flags ==
    [readable |-> TRUE, writable |-> FALSE, executable |-> TRUE,
     contains_data |-> TRUE, contains_code |-> TRUE]

\* parent_view.read_buffer(0, parent_view.len()): the whole file.
read_buffer(data) == ReadBytes(data, 0, Len(data))

\* BinaryViewBase::entry_point for iBootView.
entry_point == ZeroU64

\* iBootView::init on a view v over the parent bytes data.  archOK: the
\* core has an "aarch64" architecture with a standalone platform.  checked:
\* the build traps on integer overflow (debug) instead of wrapping (release).
iBootView_init(v, data, archOK, checked) ==
    LET parent_len  == Len(data)
        buf         == read_buffer(data)
        noBase      == [known |-> FALSE, value |-> ZeroU64]
    IN
    IF ~archOK
    THEN [result |-> "Err", base_addr |-> noBase, view |-> v]
    ELSE
    LET v1   == [v EXCEPT !.arch = "aarch64", !.platform = "aarch64-standalone"]
        fb   == find_base_addr(data, buf)
        base == fb.value
        sum  == AddU64(base, FromNat(parent_len))
        seg  == [start |-> base, end |-> sum.value,
                 backing_start |-> 0, backing_end |-> parent_len,
                 auto |-> TRUE, flags |-> segment_flags]
        sec  == [name |-> "iBoot", start |-> base, end |-> sum.value,
                 semantics |-> "ReadOnlyCode", auto |-> TRUE]
        sym  == [type |-> "Function", name |-> "_start", addr |-> base]
    IN
    IF fb.panic
    THEN [result |-> "panic", base_addr |-> noBase, view |-> v1]
    ELSE IF sum.overflow /\ checked
    THEN [result |-> "panic", base_addr |-> [known |-> TRUE, value |-> base],
          view |-> v1]
    ELSE [result |-> "Ok", base_addr |-> [known |-> TRUE, value |-> base],
          view |-> [v1 EXCEPT !.segments     = Append(@, seg),
                              !.sections     = Append(@, sec),
                              !.entry_points = Append(@, base),
                              !.symbols      = Append(@, sym)]]

\* --------------------------------------------------------------- inputs --

\* How many times the host may create and initialise a view of one file.
MaxCalls == 2

\* "6603.0" padded to the window's length, with the window's last byte the
\* first byte of a two-byte encoding that the end of the window cuts off.
CutOffText ==
    [i \in 1..VersionLen |->
        IF i <= 6 THEN <<54, 54, 48, 51, 46, 48>>[i]
        ELSE IF i = VersionLen THEN 195 ELSE 0]

\* "6603.0.0.1.0", "6602.9", "7429.0.0.0.1", "x.0.0", ".5", "+6603.1",
\* "999.1", "6603" (no dot), "", "18446744073709551615.1",
\* "18446744073709551616.1", "-1.0", "6603.<e-acute>", and texts that are
\* not UTF-8: a lone 0xFF, "6603.0" followed by 0xC3 0x28, 0xED 0xA0 0x80,
\* and CutOffText.
VersionTexts ==
    { CutOffText,
      <<54, 54, 48, 51, 46, 48, 46, 48, 46, 49, 46, 48>>,
      <<54, 54, 48, 50, 46, 57>>,
      <<55, 52, 50, 57, 46, 48, 46, 48, 46, 48, 46, 49>>,
      <<120, 46, 48, 46, 48>>,
      <<46, 53>>,
      <<43, 54, 54, 48, 51, 46, 49>>,
      <<57, 57, 57, 46, 49>>,
      <<54, 54, 48, 51>>,
      <<>>,
      <<49, 56, 52, 52, 54, 55, 52, 52, 48, 55, 51, 55, 48, 57, 53, 53, 49,
        54, 49, 53, 46, 49>>,
      <<49, 56, 52, 52, 54, 55, 52, 52, 48, 55, 51, 55, 48, 57, 53, 53, 49,
        54, 49, 54, 46, 49>>,
      <<45, 49, 46, 48>>,
      <<54, 54, 48, 51, 46, 195, 169>>,
      <<255>>,
      <<54, 54, 48, 51, 46, 48, 195, 40>>,
      <<237, 160, 128, 46, 49>> }

\* The tag bytes written into the header and the offset they are written at.
TagPlacements ==
    { [tag |-> Tag_SecureROM, at |-> TagOffset],
      [tag |-> Tag_AVPBooter, at |-> TagOffset],
      [tag |-> Tag_iBoot,     at |-> TagOffset],
      [tag |-> Tag_iBEC,      at |-> TagOffset],
      [tag |-> Tag_iBSS,      at |-> TagOffset],
      [tag |-> Tag_iBoot,     at |-> TagOffset + 1],
      [tag |-> <<105, 66, 111, 111, 117>>, at |-> TagOffset],
      [tag |-> <<105, 66, 83, 115>>,       at |-> TagOffset],
      [tag |-> <<>>,                       at |-> TagOffset] }

\* The values stored at 0x300 and at 0x318.
FieldPairs ==
    { [modern |-> <<0, 0, 0, 1, 128, 1, 192, 0>>,
       legacy |-> <<0, 0, 0, 1, 128, 11, 0, 0>>],
      [modern |-> <<255, 255, 255, 255, 255, 255, 252, 224>>,
       legacy |-> <<255, 255, 255, 255, 255, 255, 240, 0>>] }

ImageLengths == {0, 512, 515, 516, 517, 521, 656, 768, 775, 776, 799, 800, 1024}

InRange(o, at, n) == o >= at /\ o < at + n

\* The file of length len with the tag, the version text and the two fields written at their offsets, padding elsewhere.
BuildImage(len, place, text, fields) ==
    [i \in 1..len |->
        LET o == i - 1 IN
        IF InRange(o, place.at, Len(place.tag)) THEN place.tag[o - place.at + 1]
        ELSE IF InRange(o, VersionOffset, Len(text)) THEN text[o - VersionOffset + 1]
        ELSE IF InRange(o, ModernOffset, FieldSize)
             THEN fields.modern[FieldSize - (o - ModernOffset)]
        ELSE IF InRange(o, LegacyOffset, FieldSize)
             THEN fields.legacy[FieldSize - (o - LegacyOffset)]
        ELSE 0]

\* -------------------------------------------------------- state machine --

VARIABLES
    image,            \* the RawImage: the opened file's bytes
    overflow_checks,  \* build profile: integer overflow traps
    arch_registered,  \* the core knows "aarch64" and its standalone platform
    pc,               \* "opened", "probed", "created", "done", "aborted"
    supported,        \* what is_valid_for returned
    view,             \* the facts of the current view instance
    result,           \* how the last init ended: "none", "Ok", "Err", "panic"
    base_addr,        \* what find_base_addr returned in the last init
    reported_entry,   \* what the view's entry_point() told the host
    history           \* the outcome of every init so far, oldest first

vars == <<image, overflow_checks, arch_registered, pc, supported, view,
          result, base_addr, reported_entry, history>>

Unknown == [known |-> FALSE, value |-> ZeroU64]

\* A view constructor that keeps the facts of the previous instance.
iBootView_new_shared(handle) == view

\* iBootView::new / CustomBinaryView::new: wraps the host's new BinaryView.
iBootView_new(handle) == handle

Init ==
    /\ \E len \in ImageLengths, place \in TagPlacements, text \in VersionTexts,
          fields \in FieldPairs :
            image = BuildImage(len, place, text, fields)
    /\ overflow_checks \in BOOLEAN
    /\ arch_registered \in BOOLEAN
    /\ pc = "opened"
    /\ supported = FALSE
    /\ view = EmptyView
    /\ result = "none"
    /\ base_addr = Unknown
    /\ reported_entry = Unknown
    /\ history = <<>>

\* The host asks the view type whether it applies to the file.
IsValidFor ==
    /\ pc = "opened"
    /\ supported' = is_valid_for(image)
    /\ pc' = "probed"
    /\ UNCHANGED <<image, overflow_checks, arch_registered, view, result,
                   base_addr, reported_entry, history>>

\* create_custom_view: the host builds a new view instance on the file.
CreateCustomView ==
    /\ pc \in {"probed", "done"}
    /\ supported
    /\ Len(history) < MaxCalls
    /\ view' = iBootView_new(EmptyView)
    /\ result' = "none"
    /\ base_addr' = Unknown
    /\ reported_entry' = Unknown
    /\ pc' = "created"
    /\ UNCHANGED <<image, overflow_checks, arch_registered, supported, history>>

\* CustomBinaryView::init: the whole of iBootView::init; a panic ends the
\* process.
ViewInit ==
    /\ pc = "created"
    /\ LET out == iBootView_init(view, image, arch_registered, overflow_checks)
       IN  /\ view' = out.view
           /\ result' = out.result
           /\ base_addr' = out.base_addr
           /\ history' = Append(history, out)
           /\ pc' = IF out.result = "panic" THEN "aborted" ELSE "done"
    /\ UNCHANGED <<image, overflow_checks, arch_registered, supported,
                   reported_entry>>

\* The host asks an initialised view for its entry point.
EntryPoint ==
    /\ pc = "done"
    /\ result = "Ok"
    /\ ~reported_entry.known
    /\ reported_entry' = [known |-> TRUE, value |-> entry_point]
    /\ UNCHANGED <<image, overflow_checks, arch_registered, pc, supported,
                   view, result, base_addr, history>>

Next == IsValidFor \/ CreateCustomView \/ ViewInit \/ EntryPoint

Spec == Init /\ [][Next]_vars

\* ------------------------------------------------------------ properties --

\* The byte at file offset o of img.
ByteAt(img, o) == img[o + 1]

\* img holds all of t at offset o.
HoldsAt(img, o, t) ==
    /\ Len(img) >= o + Len(t)
    /\ \A i \in 1..Len(t) : ByteAt(img, o + i - 1) = t[i]

\* "SecureROM", "AVPBooter", "iBoot", "iBEC", "iBSS" as ASCII.
FiveTags ==
    { <<83, 101, 99, 117, 114, 101, 82, 79, 77>>,
      <<65, 86, 80, 66, 111, 111, 116, 101, 114>>,
      <<105, 66, 111, 111, 116>>,
      <<105, 66, 69, 67>>,
      <<105, 66, 83, 83>> }

\* The u64 whose least significant byte is at offset o of img.
LittleEndianAt(img, o) == [i \in U64Digits |-> ByteAt(img, o + (8 - i))]

Probed == pc # "opened"

\* An init has run to its end (return or panic) on the current view and
\* got past the architecture lookup.
InitEnded == pc \in {"done", "aborted"}
Resolved  == InitEnded /\ arch_registered

Window      == ReadBytes(image, VersionOffset, VersionLen)
WindowMajor == parse_u64(split_first(Window))

\* The offset the version selects: 0x300 from 6603 on, 0x318 below.
SelectedOffset ==
    IF LessU64(WindowMajor.value, <<0, 0, 0, 0, 0, 0, 25, 203>>)
    THEN 792 ELSE 768

NoFacts(v) ==
    /\ v.segments = <<>>
    /\ v.sections = <<>>
    /\ v.entry_points = <<>>
    /\ v.symbols = <<>>

\* C1: is_valid_for returns true if and only if the bytes at offset 0x200
\* equal, over the tag's full length, one of the five tags; a tag at 0x201
\* or a tag with one byte altered gives false.
C1_ExactTagAt0x200 ==
    Probed => (supported <=> \E t \in FiveTags : HoldsAt(image, 512, t))

C1_Witness ==
    /\ pc = "probed"
    /\ supported
    /\ HoldsAt(image, 512, <<105, 66, 111, 111, 116>>)

\* C7: a buffer shorter than 0x200 + tagLength for every tag (empty, or
\* ending inside the tag window) is rejected: the probe returns false.
C7_ShortBufferRejected ==
    (Probed /\ \A t \in FiveTags : Len(image) < 512 + Len(t))
        => supported = FALSE

C7_Witness ==
    /\ pc = "probed"
    /\ ~supported
    /\ Len(image) = 515
    /\ HoldsAt(image, 512, <<105, 66, 111>>)

\* C2: when the version window is UTF-8 and its first dot-separated
\* component parses as an unsigned integer M, the base address is the
\* little-endian u64 at 0x300 if M >= 6603 and at 0x318 if M < 6603.
C2_BaseFromSelectedOffset ==
    ( /\ Resolved
      /\ from_utf8_ok(Window)
      /\ WindowMajor.ok
      /\ Len(image) >= SelectedOffset + 8 )
        => /\ base_addr.known
           /\ base_addr.value = LittleEndianAt(image, SelectedOffset)

C2_Witness ==
    /\ pc = "done"
    /\ result = "Ok"
    /\ from_utf8_ok(Window)
    /\ WindowMajor.ok
    /\ WindowMajor.value = <<0, 0, 0, 0, 0, 0, 25, 203>>
    /\ Len(image) >= 792 + 8
    /\ base_addr.value = LittleEndianAt(image, 768)
    /\ LittleEndianAt(image, 768) # LittleEndianAt(image, 792)

C3_LayoutAtBase ==
    (pc = "done" /\ result = "Ok" /\ reported_entry.known) =>
        LET B == base_addr.value
            E == AddU64(B, FromNat(Len(image)))
        IN  /\ Len(view.segments) = 1
            /\ view.segments[1].start = B
            /\ ~E.overflow
            /\ view.segments[1].end = E.value
            /\ view.entry_points = <<B>>
            /\ reported_entry.value = B
            /\ view.symbols = <<[type |-> "Function", name |-> "_start", addr |-> B]>>

\* C4: when the version window is not valid UTF-8, resolution fails with a
\* typed error and defines nothing: no base address, region, entry point
\* or symbol.
C4_InvalidEncodingFails ==
    (Resolved /\ ~from_utf8_ok(Window)) =>
        /\ result = "Err"
        /\ ~base_addr.known
        /\ NoFacts(view)

\* C5: when the version text is UTF-8 but its first component is empty,
\* non-numeric or out of range, resolution returns a typed failure and the
\* process is not terminated.
C5_BadVersionIsTypedFailure ==
    (Resolved /\ from_utf8_ok(Window) /\ ~WindowMajor.ok) =>
        /\ result = "Err"
        /\ pc # "aborted"

\* C6: when the image is too short to hold the 8-byte field at the selected
\* offset, resolution fails with a typed error: it neither faults nor
\* yields a base address.
C6_TruncatedIsTypedFailure ==
    ( /\ Resolved
      /\ from_utf8_ok(Window)
      /\ WindowMajor.ok
      /\ Len(image) < SelectedOffset + 8 )
        => /\ result = "Err"
           /\ pc # "aborted"
           /\ ~base_addr.known

\* C8: an init that ends in a failure or an abort has written none of the
\* host facts: architecture, platform, segment, section, entry point, symbol.
C8_NoPartialLayoutOnError ==
    (InitEnded /\ result \in {"Err", "panic"}) => view = EmptyView

\* C10: the end B + L of every region and section does not wrap around:
\* end > start when L > 0, and end - start = L.
C10_RegionDoesNotWrap ==
    \A k \in DOMAIN view.segments :
        LET seg == view.segments[k]
            sec == view.sections[k]
        IN  /\ Len(image) > 0 => LessU64(seg.start, seg.end)
            /\ SubU64(seg.end, seg.start) = FromNat(Len(image))
            /\ Len(image) > 0 => LessU64(sec.start, sec.end)
            /\ SubU64(sec.end, sec.start) = FromNat(Len(image))

====
